---- MODULE Spec2Model ----
(***************************************************************************)
(* A model of aiida_backup/backup.py: one invocation of the script after   *)
(* another, against a node catalog, a destination tree and a marker file   *)
(* that persist between invocations.                                       *)
(*                                                                         *)
(* Strings that the script splits on '/' are sequences of path segments;   *)
(* the text of the marker file is a sequence of lines, each a sequence of  *)
(* whitespace-delimited tokens, with a flag for an unterminated last line. *)
(* Instants are clock ticks, TicksPerSec to the second.                    *)
(***************************************************************************)
EXTENDS Integers, Sequences, FiniteSets, TLC

\* ------------------------------------------------------------- bounds
MaxNodes == 3
MaxClock == 2
RunsOne == 1
RunsArch == 2
RunsTime == 2
TicksPerSec == 2
SecondsPerDay == 86400

Nodes == 1..MaxNodes

\* ------------------------------------------------------ strings, paths
\* The segments that occur in a compared path, in ascending string order.
SegOrder == <<"", "02", "24", "31", "64", "backup", "dest", "node", "repo">>

Rank(s) == CHOOSE k \in 1..Len(SegOrder) : SegOrder[k] = s

\* Python's < on two '/'-joined strings. Every character of a segment sorts
\* above '/', so the strings compare as their segment sequences do.
RECURSIVE StrLess(_, _)
StrLess(p, q) ==
  IF p = <<>> THEN q # <<>>
  ELSE IF q = <<>> THEN FALSE
  ELSE IF Head(p) = Head(q) THEN StrLess(Tail(p), Tail(q))
  ELSE Rank(Head(p)) < Rank(Head(q))

\* seq[a:b] with Python's 0-based, end-exclusive, clamped bounds (a, b >= 0).
Slice(s, a, b) ==
  LET lo == IF a > Len(s) THEN Len(s) ELSE a
      hi == IF b > Len(s) THEN Len(s) ELSE b
  IN IF hi <= lo THEN <<>> ELSE SubSeq(s, lo + 1, hi)

\* seq[-k:] and seq[-k:-j]
LastK(s, k) == Slice(s, IF Len(s) > k THEN Len(s) - k ELSE 0, Len(s))
LastKButJ(s, k, j) ==
  Slice(s, IF Len(s) > k THEN Len(s) - k ELSE 0, IF Len(s) > j THEN Len(s) - j ELSE 0)

\* ------------------------------------------------- repository layout
RepoPath == <<"", "repo">>
UuidXX == <<"31", "24", "24", "24", "31", "31">>
UuidYY == <<"02", "64", "64", "02", "64", "02">>
UuidRest == <<"c", "a", "b", "d", "e", "f">>
Slot(n) == ((n - 1) % 6) + 1

\* RepositoryFolder(section='node', uuid=node.uuid).abspath
RepositoryFolder(n) ==
  RepoPath \o <<"node", UuidXX[Slot(n)], UuidYY[Slot(n)], UuidRest[Slot(n)]>>

\* '/'.join(path.split('/')[:-1])
LevelUp(path) == Slice(path, 0, Len(path) - 1)

\* sorted(set)
RECURSIVE Sorted_Descending(_)
Sorted_Descending(S) ==
  IF S = {} THEN <<>>
  ELSE LET m == CHOOSE x \in S : \A y \in S : ~StrLess(x, y)
       IN <<m>> \o Sorted_Descending(S \ {m})
RECURSIVE Sorted(_)
Sorted(S) ==
  IF S = {} THEN <<>>
  ELSE LET m == CHOOSE x \in S : \A y \in S : ~StrLess(y, x)
       IN <<m>> \o Sorted(S \ {m})

\* get_paths_to_tar on the rows the query returned, in the order returned.
RECURSIVE AddPaths(_, _)
AddPaths(res, paths) ==
  IF res = <<>> THEN paths
  ELSE AddPaths(Tail(res), paths \cup {LevelUp(RepositoryFolder(Head(res)))})

get_paths_to_tar(res) == Sorted(AddPaths(res, {}))

\* ------------------------------------------------------- marker file
Num(n) == [k |-> "num", v |-> n]
Hash == [k |-> "hash", v |-> 0]
Text == [k |-> "text", v |-> 0]

\* Two tokens written with no whitespace between them read as one token,
\* which is no float literal ("5.0" + "6.0" = "5.06.0").
Glue(t, u) == Text

\* f.write(text) in mode 'a': the text's first token continues an
\* unterminated last line; the text ends with '\n'.
WriteLine(file, tokens) ==
  LET n == Len(file.lines)
  IN IF n = 0 \/ ~file.open
       THEN [lines |-> Append(file.lines, tokens), open |-> FALSE]
       ELSE LET last == file.lines[n]
                joined == IF last = <<>> THEN tokens
                          ELSE SubSeq(last, 1, Len(last) - 1)
                               \o <<Glue(last[Len(last)], Head(tokens))>>
                               \o Tail(tokens)
            IN [lines |-> [file.lines EXCEPT ![n] = joined], open |-> FALSE]

\* The loop of get_query over f.readlines(): float() of the first token of
\* every non-blank line; the value of the last one is kept.
RECURSIVE ReadLines(_, _)
ReadLines(lines, acc) ==
  IF lines = <<>> THEN acc
  ELSE IF Head(lines) = <<>> THEN ReadLines(Tail(lines), acc)
  ELSE IF Head(lines)[1].k # "num" THEN [st |-> "ValueError", v |-> 0]
  ELSE ReadLines(Tail(lines), [st |-> "ok", v |-> Head(lines)[1].v])

ReadTimestamp(file) == ReadLines(file.lines, [st |-> "unbound", v |-> 0])

\* ------------------------------------------------------------- time
\* time.mktime(t.timetuple()): the sub-second part is dropped and the
\* fields are read as local time, tz seconds east of UTC.
Mktime(t, off) == (t \div TicksPerSec) - off

\* datetime.datetime.fromtimestamp(ts): local wall-clock fields, as an
\* instant of the catalog's clock.
FromTimestamp(ts, off) == (ts + off) * TicksPerSec

\* ------------------------------------------------------------- state
VARIABLES
  now,               \* the clock, in ticks
  tz,                \* the local zone's offset from UTC, in seconds
  catalog,           \* node id -> [here, ctime, mtime]
  dirs,              \* the directories that exist
  tars,              \* archive path -> its member set, for the files that exist
  marker,            \* the marker file: [lines, open]
  pc,                \* where the running invocation stands
  runs,              \* invocations started so far
  parsed,            \* the namespace parse_args returned
  query_date_mode,
  current_time,
  current_timestamp,
  qb,                \* the query get_query returned
  paths_to_tar,
  i,                 \* tar_paths: index of the loop's current path
  tar_file_name,
  err,               \* the exception that ended the invocation
  start,             \* history: dirs, tars and marker when the invocation began
  nBuilt,            \* history: queries constructed by this invocation
  nExec,             \* history: queries executed by this invocation
  selected,          \* history: the nodes the executed query returned
  invoked,           \* history: archiver invocations of this invocation
  lastArch,          \* history: per bucket, its last successful archiving
  lastRecorded,      \* history: current_time of the last invocation that recorded
  cmdline            \* history: the command line of this invocation

envVars == <<now, tz, catalog>>
fsVars == <<dirs, tars, marker>>
runVars == <<parsed, query_date_mode, current_time, current_timestamp, qb,
             paths_to_tar, i, tar_file_name, err>>
histVars == <<start, nBuilt, nExec, selected, invoked, lastArch, lastRecorded,
              cmdline>>
vars == <<envVars, fsVars, pc, runs, runVars, histVars>>

Location == <<"", "backup", "dest">>
MarkerPath == "marker"
InitNow == 2 * SecondsPerDay * TicksPerSec

NoQuery == [kind |-> "none", ids |-> {}, field |-> "", bound |-> 0]
NoArgs ==
  [full |-> FALSE, node_ids |-> <<>>, past_days |-> [set |-> FALSE, v |-> 0],
   timestamp |-> "", mtime |-> FALSE, ctime |-> FALSE, dry_run |-> FALSE,
   ignore_files |-> {}]

Range(s) == {s[k] : k \in 1..Len(s)}
Perms(S) ==
  {s \in [1..Cardinality(S) -> S] : \A a, b \in 1..Cardinality(S) : s[a] = s[b] => a = b}

\* ----------------------------------------------------------- argparse
\* parser.parse_args() on a command line cmd = [opts, ids, days, tsfile, m,
\* c, dry, ignore]: opts are the options of group_query that are present.
\* None is written <<>> for node_ids and "" for timestamp (the script only
\* tests their truth), and [set |-> FALSE] for past_days.
ParseArgs_NotExclusive(cmd) ==
  [ok |-> ~(cmd.m /\ cmd.c) /\ ~("n" \in cmd.opts /\ cmd.ids = <<>>)
          /\ cmd.opts # {},
   ns |-> [full |-> "f" \in cmd.opts,
           node_ids |-> IF "n" \in cmd.opts THEN cmd.ids ELSE <<>>,
           past_days |-> [set |-> "p" \in cmd.opts, v |-> cmd.days],
           timestamp |-> IF "t" \in cmd.opts THEN cmd.tsfile ELSE "",
           mtime |-> cmd.m, ctime |-> cmd.c, dry_run |-> cmd.dry,
           ignore_files |-> cmd.ignore]]
ParseArgs(cmd) ==
  [ok |-> /\ Cardinality(cmd.opts) = 1
          /\ ~("n" \in cmd.opts /\ cmd.ids = <<>>)
          /\ ~(cmd.m /\ cmd.c),
   ns |-> [full |-> "f" \in cmd.opts,
           node_ids |-> IF "n" \in cmd.opts THEN cmd.ids ELSE <<>>,
           past_days |-> [set |-> "p" \in cmd.opts, v |-> cmd.days],
           timestamp |-> IF "t" \in cmd.opts THEN cmd.tsfile ELSE "",
           mtime |-> cmd.m, ctime |-> cmd.c, dry_run |-> cmd.dry,
           ignore_files |-> cmd.ignore]]

\* __main__, the choice of the date field
DateMode(ns) ==
  IF ns.past_days.set \/ ns.timestamp # ""
    THEN IF ~ns.mtime /\ ~ns.ctime THEN [ok |-> FALSE, mode |-> ""]
         ELSE [ok |-> TRUE, mode |-> IF ns.mtime THEN "mtime" ELSE "ctime"]
    ELSE [ok |-> TRUE, mode |-> ""]

\* ---------------------------------------------------------- get_query
get_query_AnyDays(full, node_ids, past_days, timestamp, mode) ==
  IF full THEN [st |-> "ok", q |-> [NoQuery EXCEPT !.kind = "all"]]
  ELSE IF node_ids # <<>>
    THEN [st |-> "ok", q |-> [NoQuery EXCEPT !.kind = "id_in", !.ids = Range(node_ids)]]
  ELSE IF timestamp # ""
    THEN IF timestamp # MarkerPath THEN [st |-> "IOError", q |-> NoQuery]
         ELSE LET r == ReadTimestamp(marker)
              IN IF r.st = "unbound" THEN [st |-> "UnboundLocalError", q |-> NoQuery]
                 ELSE IF r.st # "ok" THEN [st |-> r.st, q |-> NoQuery]
                 ELSE [st |-> "ok",
                       q |-> [NoQuery EXCEPT !.kind = "date_ge", !.field = mode,
                                             !.bound = FromTimestamp(r.v, tz)]]
  ELSE IF past_days.set
    THEN [st |-> "ok",
          q |-> [NoQuery EXCEPT !.kind = "date_ge", !.field = mode,
                   !.bound = now - past_days.v * SecondsPerDay * TicksPerSec]]
  ELSE [st |-> "RuntimeError", q |-> NoQuery]
get_query(full, node_ids, past_days, timestamp, mode) ==
  IF full THEN [st |-> "ok", q |-> [NoQuery EXCEPT !.kind = "all"]]
  ELSE IF node_ids # <<>>
    THEN [st |-> "ok", q |-> [NoQuery EXCEPT !.kind = "id_in", !.ids = Range(node_ids)]]
  ELSE IF timestamp # ""
    THEN IF timestamp # MarkerPath THEN [st |-> "IOError", q |-> NoQuery]
         ELSE LET r == ReadTimestamp(marker)
              IN IF r.st = "unbound" THEN [st |-> "UnboundLocalError", q |-> NoQuery]
                 ELSE IF r.st # "ok" THEN [st |-> r.st, q |-> NoQuery]
                 ELSE [st |-> "ok",
                       q |-> [NoQuery EXCEPT !.kind = "date_ge", !.field = mode,
                                             !.bound = FromTimestamp(r.v, tz)]]
  ELSE IF past_days.set
    THEN IF past_days.v < 1 THEN [st |-> "ValueError", q |-> NoQuery]
         ELSE [st |-> "ok",
               q |-> [NoQuery EXCEPT !.kind = "date_ge", !.field = mode,
                        !.bound = now - past_days.v * SecondsPerDay * TicksPerSec]]
  ELSE [st |-> "RuntimeError", q |-> NoQuery]

\* The catalog's answer to a query: the rows of query.all(), as a set.
Matches(q, n) ==
  /\ catalog[n].here
  /\ CASE q.kind = "all" -> TRUE
       [] q.kind = "id_in" -> n \in q.ids
       [] q.kind = "date_ge" -> catalog[n][q.field] >= q.bound
       [] OTHER -> FALSE
Rows(q) == {n \in Nodes : Matches(q, n)}

\* -------------------------------------------------------- filesystem
\* mkdir(dirname) on the directory set d: os.mkdir makes one level and
\* raises OSError when the parent is missing.
mkdir_Nothing(d, dirname) ==
  [ok |-> TRUE, dirs |-> d]
mkdir(d, dirname) ==
  IF dirname \in d \/ dirname \in DOMAIN tars THEN [ok |-> TRUE, dirs |-> d]
  ELSE IF Slice(dirname, 0, Len(dirname) - 1) \in d
    THEN [ok |-> TRUE, dirs |-> d \cup {dirname}]
  ELSE [ok |-> FALSE, dirs |-> d]

\* '/'.join(LOC+splitted_path[-3:-1])
TarDir(splitted_path) == Location \o LastKButJ(splitted_path, 3, 1)

\* '/'.join(LOC+splitted_path[-3:])+'.tar'
TarFileName_LastSegment(splitted_path) ==
  LET parts == Location \o LastK(splitted_path, 1)
  IN SubSeq(parts, 1, Len(parts) - 1) \o <<parts[Len(parts)] \o ".tar">>
TarFileName(splitted_path) ==
  LET parts == Location \o LastK(splitted_path, 3)
  IN SubSeq(parts, 1, Len(parts) - 1) \o <<parts[Len(parts)] \o ".tar">>

\* The directory 'tar cf <name> -C <splitted_path[:-1]> <splitted_path[-1]>' packs.
TarSource(splitted_path) ==
  Slice(splitted_path, 0, Len(splitted_path) - 1) \o LastK(splitted_path, 1)

\* What the repository holds under a bucket directory: a folder per node.
DirMembers(d) ==
  {UuidRest[Slot(n)] : n \in {x \in Nodes : catalog[x].here /\ LevelUp(RepositoryFolder(x)) = d}}

\* The members of the archive 'tar cf' writes: --exclude drops the names given.
TarMembers(splitted_path, ignore_files) ==
  DirMembers(TarSource(splitted_path)) \ ignore_files

\* os.remove
RemoveFile_Keep(t, name) == t
RemoveFile(t, name) == [p \in DOMAIN t \ {name} |-> t[p]]
\* ----------------------------------------------------------- __main__
Fail(e) == pc' = "error" /\ err' = e

\* parser.parse_args() and the choice of the date field; a new invocation
\* starts when the previous one has ended.
Main_Parse(cmd) ==
  /\ pc \in {"idle", "done", "error"}
  /\ runs' = runs + 1
  /\ cmdline' = cmd
  /\ LET a == ParseArgs(cmd)
         m == DateMode(a.ns)
     IN /\ parsed' = IF a.ok THEN a.ns ELSE NoArgs
        /\ query_date_mode' = IF a.ok /\ m.ok THEN m.mode ELSE ""
        /\ IF ~a.ok THEN Fail("usage")
           ELSE IF ~m.ok THEN Fail("Exception")
           ELSE pc' = "capture" /\ err' = ""
  /\ current_time' = 0 /\ current_timestamp' = 0
  /\ qb' = NoQuery /\ paths_to_tar' = <<>> /\ i' = 0 /\ tar_file_name' = <<>>
  /\ start' = [dirs |-> dirs, tars |-> tars, marker |-> marker]
  /\ nBuilt' = 0 /\ nExec' = 0 /\ selected' = {} /\ invoked' = <<>>
  /\ UNCHANGED <<envVars, fsVars, lastArch, lastRecorded>>

\* current_time = timezone.now(); current_timestamp = time.mktime(...)
Main_Capture ==
  /\ pc = "capture"
  /\ IF parsed.timestamp # ""
       THEN /\ current_time' = now
            /\ current_timestamp' = Mktime(now, tz)
       ELSE UNCHANGED <<current_time, current_timestamp>>
  /\ pc' = "get_query"
  /\ UNCHANGED <<envVars, fsVars, runs, parsed, query_date_mode, qb, paths_to_tar,
                 i, tar_file_name, err, histVars>>

\* qb = get_query(...)
Main_GetQuery ==
  /\ pc = "get_query"
  /\ LET r == get_query(parsed.full, parsed.node_ids, parsed.past_days,
                        parsed.timestamp, query_date_mode)
     IN IF r.st = "ok"
          THEN /\ qb' = r.q /\ nBuilt' = nBuilt + 1
               /\ pc' = "get_paths" /\ err' = err
          ELSE /\ Fail(r.st)
               /\ UNCHANGED <<qb, nBuilt>>
  /\ UNCHANGED <<envVars, fsVars, runs, parsed, query_date_mode, current_time,
                 current_timestamp, paths_to_tar, i, tar_file_name, start, nExec,
                 selected, invoked, lastArch, lastRecorded, cmdline>>

\* paths_to_tar = get_paths_to_tar(query=qb): the catalog returns the rows
\* in an order of its own.
Main_GetPaths ==
  /\ pc = "get_paths"
  /\ \E res \in Perms(Rows(qb)) : paths_to_tar' = get_paths_to_tar(res)
  /\ selected' = Rows(qb)
  /\ nExec' = nExec + 1
  /\ pc' = "tar_init"
  /\ UNCHANGED <<envVars, fsVars, runs, parsed, query_date_mode, current_time,
                 current_timestamp, qb, i, tar_file_name, err, start, nBuilt,
                 invoked, lastArch, lastRecorded, cmdline>>

\* ---------------------------------------------------------- tar_paths
LoopAt(j) == IF j > Len(paths_to_tar) THEN "record" ELSE "tar_loop"

\* Up to the loop: mkdir(location); mkdir(location/node)
TarInit ==
  /\ pc = "tar_init"
  /\ IF parsed.dry_run
       THEN /\ pc' = LoopAt(1) /\ i' = 1
            /\ UNCHANGED <<dirs, err>>
       ELSE LET m1 == mkdir(dirs, Location)
                m2 == mkdir(m1.dirs, Location \o <<"node">>)
            IN IF m1.ok /\ m2.ok
                 THEN /\ dirs' = m2.dirs
                      /\ pc' = LoopAt(1) /\ i' = 1 /\ err' = err
                 ELSE /\ dirs' = m1.dirs
                      /\ Fail("OSError") /\ i' = i
  /\ UNCHANGED <<envVars, tars, marker, runs, parsed, query_date_mode, current_time,
                 current_timestamp, qb, paths_to_tar, tar_file_name, histVars>>

\* One pass of the loop, up to the archiver's command line: mkdir of the
\* archive's directory, tar_file_name, os.remove of an archive in place.
TarPrepare ==
  /\ pc = "tar_loop"
  /\ LET splitted_path == paths_to_tar[i]
         m == IF parsed.dry_run THEN [ok |-> TRUE, dirs |-> dirs]
              ELSE mkdir(dirs, TarDir(splitted_path))
         name == TarFileName(splitted_path)
         there == name \in m.dirs \/ name \in DOMAIN tars
     IN IF ~m.ok
          THEN /\ Fail("OSError")
               /\ UNCHANGED <<dirs, tars, tar_file_name>>
          ELSE /\ dirs' = m.dirs
               /\ tar_file_name' = name
               /\ IF there /\ ~parsed.dry_run
                    THEN IF name \in DOMAIN tars
                           THEN /\ tars' = RemoveFile(tars, name)
                                /\ pc' = "tar_cmd" /\ err' = err
                           ELSE /\ tars' = tars
                                /\ Fail("OSError")
                    ELSE /\ tars' = tars
                         /\ pc' = "tar_cmd" /\ err' = err
  /\ UNCHANGED <<envVars, marker, runs, parsed, query_date_mode, current_time,
                 current_timestamp, qb, paths_to_tar, i, histVars>>

\* The rest of the pass: under dry_run nothing, else os.system(cmd), whose
\* exit status is dropped. tar writes the archive or fails and writes none.
TarInvoke ==
  /\ pc = "tar_cmd"
  /\ IF parsed.dry_run
       THEN UNCHANGED <<tars, invoked, lastArch>>
       ELSE \E ok \in BOOLEAN :
              LET splitted_path == paths_to_tar[i]
                  members == TarMembers(splitted_path, parsed.ignore_files)
                  can == /\ Slice(tar_file_name, 0, Len(tar_file_name) - 1) \in dirs
                         /\ tar_file_name \notin dirs
                  done == ok /\ can
              IN /\ ok => can
                 /\ tars' = IF done THEN (tar_file_name :> members) @@ tars ELSE tars
                 /\ invoked' = Append(invoked, [path |-> splitted_path,
                                                name |-> tar_file_name,
                                                ok |-> done, members |-> members])
                 /\ lastArch' =
                      IF done
                        THEN (splitted_path :>
                                [contents |-> DirMembers(splitted_path),
                                 ignore |-> parsed.ignore_files,
                                 members |-> members]) @@ lastArch
                        ELSE lastArch
  /\ i' = i + 1
  /\ pc' = LoopAt(i + 1)
  /\ UNCHANGED <<envVars, dirs, marker, runs, parsed, query_date_mode, current_time,
                 current_timestamp, qb, paths_to_tar, tar_file_name, err, start,
                 nBuilt, nExec, selected, lastRecorded, cmdline>>

\* After tar_paths: the marker file gets the captured time.
RecordLine_Late == <<Num(Mktime(now, tz)), Hash, Text, Text>>
RecordLine == <<Num(current_timestamp), Hash, Text, Text>>
Main_Record ==
  /\ pc = "record"
  /\ IF parsed.timestamp # ""
       THEN /\ marker' = WriteLine(marker, RecordLine)
            /\ lastRecorded' = [any |-> TRUE, at |-> current_time]
       ELSE UNCHANGED <<marker, lastRecorded>>
  /\ pc' = "done"
  /\ UNCHANGED <<envVars, dirs, tars, runs, runVars, start, nBuilt, nExec, selected,
                 invoked, lastArch, cmdline>>

\* ----------------------------------------------------- the environment
Tick ==
  /\ now < InitNow + MaxClock
  /\ now' = now + 1
  /\ UNCHANGED <<tz, catalog, fsVars, pc, runs, runVars, histVars>>

CreateNode(n) ==
  /\ ~catalog[n].here
  /\ catalog' = [catalog EXCEPT ![n] = [here |-> TRUE, ctime |-> now, mtime |-> now]]
  /\ UNCHANGED <<now, tz, fsVars, pc, runs, runVars, histVars>>

ModifyNode(n) ==
  /\ catalog[n].here
  /\ catalog[n].mtime < now
  /\ catalog' = [catalog EXCEPT ![n].mtime = now]
  /\ UNCHANGED <<now, tz, fsVars, pc, runs, runVars, histVars>>

\* ------------------------------------------------------ initial states
Root == <<"">>
Dirs0 == {Root}
Dirs1 == Dirs0 \cup {<<"", "backup">>}
Dirs2 == Dirs1 \cup {Location}
Dirs3 == Dirs2 \cup {Location \o <<"node">>}
Dirs4 == Dirs3 \cup {Location \o <<"node", "24">>}
Dirs5 == Dirs4 \cup {Location \o <<"node", "31">>}

NoTars == [p \in {} |-> {}]
\* An archive left by an earlier invocation, of a bucket that has changed since.
StaleTars == (Location \o <<"node", "24", "64.tar">>) :> {"a", "gone"}

\* Marker files: every time in one is a time.mktime() of a past instant.
Past(off) == {Mktime(0, off), Mktime(InitNow - 2 * TicksPerSec, off)}
File(lines, open) == [lines |-> lines, open |-> open]
MarkersWell(off) ==
  { File(<<<<Num(t)>>>>, FALSE) : t \in Past(off) }
  \cup { File(<<<<Num(Mktime(0, off))>>, <<Num(t), Hash, Text>>, <<>>>>, FALSE) : t \in Past(off) }
MarkersBad(off) ==
  { File(<<>>, FALSE), File(<<<<>>, <<>>>>, FALSE),
    File(<<<<Num(Mktime(0, off))>>, <<Text>>>>, FALSE),
    File(<<<<Hash, Text>>, <<Num(Mktime(0, off))>>>>, FALSE) }
MarkersOpen(off) ==
  { File(<<<<Num(Mktime(0, off))>>>>, TRUE),
    File(<<<<Num(Mktime(0, off)), Hash, Text>>>>, TRUE) }

Absent == [here |-> FALSE, ctime |-> 0, mtime |-> 0]
Stored(c, m) == [here |-> TRUE, ctime |-> c, mtime |-> m]

\* A command line; an option that is not given carries its default.
Cmd(opts, ids, days, tsfile, m, c, dry, ignore) ==
  [opts |-> opts,
   ids |-> IF "n" \in opts THEN ids ELSE <<>>,
   days |-> IF "p" \in opts THEN days ELSE 0,
   tsfile |-> IF "t" \in opts THEN tsfile ELSE "",
   m |-> m, c |-> c, dry |-> dry, ignore |-> ignore]

InitRun ==
  /\ pc = "idle" /\ runs = 0
  /\ parsed = NoArgs /\ query_date_mode = ""
  /\ current_time = 0 /\ current_timestamp = 0
  /\ qb = NoQuery /\ paths_to_tar = <<>> /\ i = 0 /\ tar_file_name = <<>>
  /\ err = ""
  /\ start = [dirs |-> dirs, tars |-> tars, marker |-> marker]
  /\ nBuilt = 0 /\ nExec = 0 /\ selected = {} /\ invoked = <<>>
  /\ lastArch = [p \in {} |-> {}]
  /\ lastRecorded = [any |-> FALSE, at |-> 0]
  /\ cmdline = Cmd({}, <<>>, 0, "", FALSE, FALSE, FALSE, {})

\* ---------------------------------------------------------------------
\* Selection and validation: every combination of the four selection
\* options, over well-formed and malformed marker files.
CmdsSel ==
  { Cmd(o, ids, d, f, mc[1], mc[2], FALSE, {}) :
      o \in SUBSET {"f", "n", "p", "t"},
      ids \in {<<>>, <<2, 3, 2>>},
      d \in {-3, 0, 1},
      f \in {"", MarkerPath, "missing"},
      mc \in BOOLEAN \X BOOLEAN }

InitSel ==
  /\ now = InitNow
  /\ tz \in {0, 3600}
  /\ catalog = [n \in Nodes |-> IF n = 1 THEN Stored(0, 0) ELSE Stored(now - 1, now - 1)]
  /\ dirs = Dirs1 /\ tars = NoTars
  /\ marker \in MarkersWell(tz) \cup MarkersBad(tz) \cup MarkersOpen(tz)
  /\ InitRun

RunSteps ==
  \/ Main_Capture
  \/ Main_GetQuery
  \/ Main_GetPaths
  \/ TarInit
  \/ TarPrepare
  \/ TarInvoke
  \/ Main_Record

NextSel ==
  \/ runs < RunsOne /\ \E cmd \in CmdsSel : Main_Parse(cmd)
  \/ RunSteps

SpecSel == InitSel /\ [][NextSel]_vars

\* ---------------------------------------------------------------------
\* What the claims speak of.
NonBlank(file) == {j \in 1..Len(file.lines) : file.lines[j] # <<>>}
LastNonBlank(file) == CHOOSE j \in NonBlank(file) : \A k \in NonBlank(file) : k <= j
\* The last non-blank line starts with a number.
LastLineParses(file) ==
  NonBlank(file) # {} /\ file.lines[LastNonBlank(file)][1].k = "num"
\* Every non-blank line starts with a number, and there is one.
EveryLineParses(file) ==
  NonBlank(file) # {} /\ \A j \in NonBlank(file) : file.lines[j][1].k = "num"

BeforeQueryRuns == {"capture", "get_query", "error"}
AfterGetQuery == {"get_paths", "tar_init", "tar_loop", "tar_cmd", "record", "done"}
SelectionErrors ==
  {"usage", "Exception", "IOError", "ValueError", "UnboundLocalError", "RuntimeError"}
Untouched ==
  dirs = start.dirs /\ tars = start.tars /\ marker = start.marker

\* The query variant of a selection option.
VariantOf(o) == IF o = "f" THEN "all" ELSE IF o = "n" THEN "id_in" ELSE "date_ge"
TheOption(opts) == CHOOSE o \in opts : TRUE

\* A command line with one selection option that passes every validation.
PassesValidation(k) ==
  /\ Cardinality(k.opts) = 1
  /\ ~(k.m /\ k.c)
  /\ "n" \in k.opts => k.ids # <<>>
  /\ "p" \in k.opts => (k.m \/ k.c) /\ k.days >= 1
  /\ "t" \in k.opts =>
       /\ k.m \/ k.c
       /\ k.tsfile = MarkerPath
       /\ EveryLineParses(start.marker)

NoDateField(k) == ("p" \in k.opts \/ "t" \in k.opts) /\ ~k.m /\ ~k.c
DaysBelowOne(k) == "p" \in k.opts /\ k.days < 1
MarkerMalformed(k) ==
  "t" \in k.opts /\ k.tsfile = MarkerPath /\ ~LastLineParses(start.marker)
FailsValidation(k) == NoDateField(k) \/ DaysBelowOne(k) \/ MarkerMalformed(k)

C5_ValidationFirst ==
  runs > 0 /\ FailsValidation(cmdline) =>
    /\ pc \in BeforeQueryRuns
    /\ pc = "error" => err \in SelectionErrors
    /\ nBuilt = 0 /\ nExec = 0 /\ qb = NoQuery
    /\ Untouched

C5_Witness_ValidationFirst ==
  /\ pc = "error" /\ err = "ValueError"
  /\ cmdline.opts = {"p"} /\ cmdline.m /\ DaysBelowOne(cmdline)

\* ---------------------------------------------------------------------
\* The path resolver alone: every set of stored nodes, a full and an
\* id-list selection, the rows in every order.
CmdsPaths ==
  { Cmd({"f"}, <<>>, 0, "", FALSE, FALSE, FALSE, {}) }
  \cup { Cmd({"n"}, ids, 0, "", FALSE, FALSE, FALSE, {}) :
           ids \in {<<1, 2, 3>>, <<MaxNodes, 2, MaxNodes>>, <<2, 3>>} }

InitPaths ==
  /\ now = InitNow
  /\ tz = 0
  /\ catalog \in [Nodes -> {Absent, Stored(0, 0)}]
  /\ dirs = Dirs1 /\ tars = NoTars
  /\ marker = File(<<>>, FALSE)
  /\ InitRun

NextPaths ==
  \/ runs < RunsOne /\ \E cmd \in CmdsPaths : Main_Parse(cmd)
  \/ Main_Capture
  \/ Main_GetQuery
  \/ Main_GetPaths

SpecPaths == InitPaths /\ [][NextPaths]_vars

\* The bucket of a node: its storage path without the last segment.
BucketOf(n) == RepoPath \o <<"node", UuidXX[Slot(n)], UuidYY[Slot(n)]>>
Ascending(seq) == \A a, b \in 1..Len(seq) : a < b => StrLess(seq[a], seq[b])
\* The sequences of length len that list exactly the nodes of S.
Listings(S, len) == {r \in [1..len -> S] : Range(r) = S}

\* C6: whatever the order of the rows, and however many of them share a
\* bucket, get_paths_to_tar returns each distinct bucket of the rows once,
\* nothing else, in ascending order; so every listing of the same rows, a
\* permutation or one with a row repeated, gives the same sequence.
C6_DistinctSorted ==
  pc = "tar_init" =>
    /\ Range(paths_to_tar) = {BucketOf(n) : n \in selected}
    /\ Len(paths_to_tar) = Cardinality({BucketOf(n) : n \in selected})
    /\ Ascending(paths_to_tar)
    /\ \A r \in Perms(selected) : get_paths_to_tar(r) = paths_to_tar
    /\ selected # {} =>
         \A r \in Listings(selected, Cardinality(selected) + 1) :
           get_paths_to_tar(r) = paths_to_tar

C6_Witness_DistinctSorted ==
  /\ pc = "tar_init"
  /\ Cardinality(selected) = 3
  /\ Len(paths_to_tar) = 2

\* ---------------------------------------------------------------------
\* The archiver: destinations that exist in part or not at all, with and
\* without an archive left behind, full and id-list selections, dry and
\* exclusion options, and nodes stored between and during invocations.
CmdsArch ==
  { Cmd({"f"}, <<>>, 0, "", FALSE, FALSE, dryig[1], dryig[2]) :
      dryig \in {<<FALSE, {}>>, <<TRUE, {}>>, <<FALSE, {"a"}>>} }
  \cup { Cmd({"n"}, <<2>>, 0, "", FALSE, FALSE, FALSE, {}) }

InitArch ==
  /\ now = InitNow
  /\ tz = 0
  /\ catalog = [n \in Nodes |-> IF n <= 2 THEN Stored(0, 0) ELSE Absent]
  /\ \/ dirs \in {Dirs0, Dirs1, Dirs2, Dirs3} /\ tars = NoTars
     \/ dirs \in {Dirs4, Dirs5} /\ tars \in {NoTars, StaleTars}
  /\ marker = File(<<>>, FALSE)
  /\ InitRun

NextArch ==
  \/ runs < RunsArch /\ \E cmd \in CmdsArch : Main_Parse(cmd)
  \/ RunSteps
  \/ \E n \in Nodes : CreateNode(n)

SpecArch == InitArch /\ [][NextArch]_vars

\* <destination_root>/node/XX/YY.tar for the bucket <repo>/node/XX/YY
DestOf(b) == Location \o <<"node", b[Len(b) - 1], b[Len(b)] \o ".tar">>
DestDirOf(b) == Location \o <<"node", b[Len(b) - 1]>>
NonDry == runs > 0 /\ ~parsed.dry_run

\* C10: in a non-dry run, when the archiver is about to be invoked for a
\* bucket <repo>/node/XX/YY, <destination_root>/node/XX is a directory and
\* nothing exists at <destination_root>/node/XX/YY.tar, whichever of the
\* destination's directories existed when the run began; and with the
\* destination's parent in place no directory fails to be made.
C10_ReadyForArchiver ==
  /\ NonDry /\ pc = "tar_cmd" =>
       /\ tar_file_name = DestOf(paths_to_tar[i])
       /\ DestDirOf(paths_to_tar[i]) \in dirs
       /\ tar_file_name \notin DOMAIN tars
       /\ tar_file_name \notin dirs
  /\ NonDry /\ SubSeq(Location, 1, Len(Location) - 1) \in start.dirs =>
       ~(pc = "error" /\ err = "OSError")

C10_Witness_ReadyForArchiver ==
  /\ NonDry /\ pc = "tar_cmd"
  /\ start.dirs = Dirs1
  /\ i = 2

\* C9 as amended: a non-dry run invokes the archiver once per bucket, in the
\* order of paths_to_tar, on <destination_root>/node/XX/YY.tar; these paths
\* are distinct, an archive written in the run is still there unchanged at
\* its end, and when every invocation succeeds the run has written exactly
\* M archives.
InvokedSoFar ==
  IF pc \in {"tar_loop", "tar_cmd"} THEN i - 1
  ELSE IF pc \in {"record", "done"} THEN Len(paths_to_tar)
  ELSE 0
Written == {invoked[k].name : k \in {j \in 1..Len(invoked) : invoked[j].ok}}

ArchiverSucceeds ==
  /\ pc = "tar_cmd" /\ ~parsed.dry_run
  /\ Len(invoked') = Len(invoked) + 1
  /\ invoked'[Len(invoked')].ok
\* The archives under the destination that belong to bucket b.
ArchivesOf(t, b) ==
  {q \in DOMAIN t : LastK(q, 3) = LastK(DestOf(b), 3)}
SameContents(b) ==
  b \in DOMAIN lastArch /\ lastArch[b].contents = DirMembers(b)
SameExclusions(b) ==
  b \in DOMAIN lastArch /\ lastArch[b].ignore = parsed.ignore_files

CmdsTime ==
  { Cmd({"t"}, <<>>, 0, MarkerPath, mcd[1], mcd[2], mcd[3], {}) :
      mcd \in {<<TRUE, FALSE, FALSE>>, <<FALSE, TRUE, TRUE>>} }
  \cup { Cmd({"f"}, <<>>, 0, "", FALSE, FALSE, FALSE, {}) }

MarkersTime(off) ==
  { File(<<<<Num(Mktime(0, off))>>, <<Num(Mktime(InitNow - 2 * TicksPerSec, off)), Hash, Text>>>>, FALSE),
    File(<<<<Hash, Text>>, <<Num(Mktime(0, off))>>>>, FALSE),
    File(<<<<Num(Mktime(0, off))>>>>, TRUE),
    File(<<<<Num(Mktime(0, off)), Hash, Text>>>>, TRUE) }

InitTime ==
  /\ now = InitNow
  /\ tz = 3600
  /\ catalog = [n \in Nodes |-> IF n = 1 THEN Stored(0, 0) ELSE Absent]
  /\ dirs = Dirs1 /\ tars = NoTars
  /\ marker \in MarkersTime(tz)
  /\ InitRun

NextTime ==
  \/ runs < RunsTime /\ \E cmd \in CmdsTime : Main_Parse(cmd)
  \/ RunSteps
  \/ Tick
  \/ CreateNode(MaxNodes)
  \/ ModifyNode(1)

SpecTime == InitTime /\ [][NextTime]_vars

ByTimestamp == runs > 0 /\ parsed.timestamp # ""
QueryExecutes == nExec' = nExec + 1
Records == pc = "record" /\ pc' = "done" /\ parsed.timestamp # ""

C2_AsStated ==
  /\ runs > 0 /\ parsed.dry_run => Untouched /\ invoked = <<>>
  /\ runs > 0 /\ pc \in {"tar_init", "tar_loop", "tar_cmd", "record"} =>
       paths_to_tar = Sorted({BucketOf(n) : n \in selected})

\* C3 as stated: the marker file changes only at the end of a timestamp-file
\* run none of whose archivings failed; other runs, and runs that end in an
\* error, leave it as it was.
C3_AsStated ==
  /\ runs > 0 /\ marker # start.marker =>
       /\ parsed.timestamp # "" /\ pc = "done"
       /\ \A k \in 1..Len(invoked) : invoked[k].ok
  /\ runs > 0 /\ pc = "error" => marker = start.marker

\* C8 as stated: recording keeps every line of the file as it was, the
\* file then reads as the time recorded, and a file reads as the first
\* token of its last non-blank line whatever its earlier lines hold.
C8_AsStated ==
  /\ ByTimestamp /\ pc = "done" =>
       /\ Len(marker.lines) = Len(start.marker.lines) + 1
       /\ \A j \in 1..Len(start.marker.lines) : marker.lines[j] = start.marker.lines[j]
       /\ ReadTimestamp(marker) = [st |-> "ok", v |-> current_timestamp]
  /\ ByTimestamp /\ parsed.timestamp = MarkerPath /\ LastLineParses(start.marker) =>
       /\ ~(pc = "error" /\ err \in {"ValueError", "UnboundLocalError"})
       /\ nBuilt = 1 =>
            qb.bound = FromTimestamp(start.marker.lines[LastNonBlank(start.marker)][1].v, tz)
====
